---- MODULE Spec2Model ----
(***************************************************************************)
(* A model of the JC-303 WebAssembly bridge: the C interface of            *)
(* wasm/jc303_wasm.cpp (one module instance with its globals g_synth,      *)
(* g_outputBuffer, g_bufferSize, g_modEnabled), the AudioWorklet processor *)
(* of wasm/jc303-worklet-processor.js and the JC303 wrapper class.         *)
(*                                                                         *)
(* Numbers.  Normalized control values are integers in hundredths          *)
(* (50 is 0.5, 150 is 1.5).  Engine-unit values (Hz, ms, dB, %) are        *)
(* integers in tenths (12300 is 1230.0 ms, 369 is 36.9).  Pointers are     *)
(* addresses 1..MaxAddr of a small heap, 0 is the null pointer.            *)
(***************************************************************************)
EXTENDS Integers, Sequences, FiniteSets, TLC

\* ------------------------------------------------------------------ bounds
MaxAddr == 3          \* heap addresses an allocation may return
MaxBuf == 2           \* largest buffer size / block length that is requested
MaxSetterCalls == 2   \* numeric setter calls per run of SpecParams
MaxMsgs == 3          \* messages the worklet's port receives per run

nullptr == 0
\* what a call returns that returns nothing, and what it yields when
\* std::bad_alloc ends it; both apart from every address, size and status
void == -1
bad_alloc == -2
\* the IEEE not-a-number value, kept apart from every value a parameter takes
NaN == -1000000
Addrs == 1..MaxAddr
BufSizes == 0..MaxBuf
NormInputs == {-50, 0, 50, 100, 150}
SampleRates == {-1, 0, 44100}

\* ------------------------------------------------ parameter mapping (C++)
RECURSIVE NewtonSqrt(_, _)
NewtonSqrt(n, x) ==
    LET y == (x + n \div x) \div 2
    IN IF y >= x THEN x ELSE NewtonSqrt(n, y)

\* floor of the square root of n >= 0
Isqrt(n) == IF n < 2 THEN n ELSE NewtonSqrt(n, n)

\* a^(1-T/span) * b^(T/span) for 0 <= T <= span, span a power of two, by
\* bisection of the exponent (each midpoint is a geometric mean)
RECURSIVE GeoInterp(_, _, _, _)
GeoInterp(lo, hi, T, span) ==
    IF T = 0 THEN lo
    ELSE IF T = span THEN hi
    ELSE LET mid == Isqrt(lo * hi)
             half == span \div 2
         IN IF T <= half THEN GeoInterp(lo, mid, T, half)
            ELSE GeoInterp(mid, hi, T - half, half)

ExpDepth == 7         \* exponent resolution of the exponential curve: 2^-ExpDepth
ExpSteps == 2 ^ ExpDepth
\* outMin * exp(t * log(outMax / outMin)) with t = T/ExpSteps in [-1, 2]
ExpCurve(outMin, outMax, T) ==
    IF T < 0 THEN (outMin * outMin) \div GeoInterp(outMin, outMax, -T, ExpSteps)
    ELSE IF T > ExpSteps
         THEN (outMax * outMax) \div GeoInterp(outMin, outMax, 2 * ExpSteps - T, ExpSteps)
    ELSE GeoInterp(outMin, outMax, T, ExpSteps)

linToLin(in, inMin, inMax, outMin, outMax) ==
    IF in = NaN THEN NaN ELSE
    outMin + ((in - inMin) * (outMax - outMin)) \div (inMax - inMin)

\* faulty variant: the two ends of the output range are swapped
linToExp_swapsRange(in, inMin, inMax, outMin, outMax) ==
    IF in = NaN THEN NaN ELSE
    ExpCurve(outMax, outMin, ((in - inMin) * ExpSteps) \div (inMax - inMin))

linToExp(in, inMin, inMax, outMin, outMax) ==
    IF in = NaN THEN NaN ELSE
    ExpCurve(outMin, outMax, ((in - inMin) * ExpSteps) \div (inMax - inMin))

\* --------------------------------------------------- program constants
\* PARAM_* ranges and the fixed TB-303 values of the six mod parameters
TUNING_MIN == 4000
TUNING_MAX == 4800
CUTOFF_MIN == 3140
CUTOFF_MAX == 23940
DECAY_NORMAL_MIN == 2000
DECAY_NORMAL_MAX == 20000
DECAY_MOD_MIN == 300
DECAY_MOD_MAX == 30000
DEFAULT_WAVEFORM == 100
DEFAULT_TUNING == 50
DEFAULT_CUTOFF == 0
DEFAULT_RESONANCE == 92
DEFAULT_ENVMOD == 0
DEFAULT_DECAY == 29
DEFAULT_ACCENT == 78
DEFAULT_VOLUME == 75
TB303_AMP_DECAY == 12300
TB303_ACCENT_DECAY == 2000
TB303_FEEDBACK_HIGHPASS == 1500
TB303_NORMAL_ATTACK == 30
TB303_SLIDE_TIME == 600
TB303_SHAPER_DRIVE == 369
AccentThreshold == 100

\* ------------------------------------------------------------------ state
VARIABLES
    g_synth,          \* Open303*: address of the engine, or nullptr
    g_outputBuffer,   \* float*: address of the output buffer, or nullptr
    g_bufferSize,     \* int: the size the module has recorded for the buffer
    g_modEnabled,     \* bool
    synth,            \* the fields of the engine object g_synth points to
    heap,             \* the allocator: address -> block or free
    faults,           \* memory errors that have happened (empty in a sound run)
    ret,              \* what the last call returned (void for a void call)
    allocs,           \* number of new/delete operations the last call performed
    written,          \* number of samples the last call stored into the buffer
    engineCalls,      \* the engine methods the last call invoked, in order
    rendered,         \* <<engine fields>> as the last call's render loop found them
    lastCall,         \* the last call made on the C interface: [op, arg]
    maxReq,           \* largest block size declared since the last init
    keysDown,         \* notes triggered and not yet released since the last init
    lastTriggered,    \* the note of the most recent note-on, 0 for none
    nSetterCalls,     \* numeric setter calls made so far
    wasmModule,       \* worklet: TRUE once the WASM module is loaded (else null)
    wasmReady,        \* worklet: this.wasmReady
    messageQueue,     \* worklet: this.messageQueue
    initState,        \* worklet: "loading" until initWasm has finished
    posted,           \* worklet: messages posted to the main thread, in order
    received,         \* worklet: ids of the messages received, in order
    applied,          \* worklet: ids of the messages applied to the engine, in order
    JC303_wasmModule, \* wrapper: this.wasmModule is not null
    isReady,          \* wrapper: this.isReady
    processorNode,    \* wrapper: this.processorNode is not null
    parameters,       \* wrapper: this.parameters, the cache (hundredths)
    activeNotes,      \* wrapper: this.activeNotes
    initPending,      \* wrapper: init() is awaiting the module
    wasmCalls,        \* wrapper: the calls its last method made into the module
    onaudioprocess,   \* wrapper: a ScriptProcessor node with the callback exists
    mapped            \* parameter mapping: the last application of a mapping function

wasmVars == <<g_synth, g_outputBuffer, g_bufferSize, g_modEnabled, synth, heap,
              faults, ret, allocs, written, engineCalls, rendered>>
histVars == <<lastCall, maxReq, keysDown, lastTriggered, nSetterCalls>>
workletVars == <<wasmModule, wasmReady, messageQueue, initState, posted,
                 received, applied>>
wrapperVars == <<JC303_wasmModule, isReady, processorNode, parameters,
                 activeNotes, initPending, wasmCalls, onaudioprocess>>
vars == <<wasmVars, histVars, workletVars, wrapperVars, mapped>>

\* ------------------------------------------------------------------- heap
FreeBlock == [k |-> "free", cap |-> 0]
SynthBlock == [k |-> "synth", cap |-> 0]
BufBlock(n) == [k |-> "buf", cap |-> n]

FreeAddrs(w) == {a \in Addrs : w.heap[a].k = "free"}

\* delete / delete[] of the block at p
Delete(w, p) ==
    IF w.heap[p].k = "free"
    THEN [w EXCEPT !.faults = @ \cup {"double_free"}, !.allocs = @ + 1]
    ELSE [w EXCEPT !.heap[p] = FreeBlock, !.allocs = @ + 1]

\* new / new[]: the allocator hands out the free address a
New(w, a, block) == [w EXCEPT !.heap[a] = block, !.allocs = @ + 1]

\* the module instance as one value, for the functions below
W == [g_synth |-> g_synth, g_outputBuffer |-> g_outputBuffer,
      g_bufferSize |-> g_bufferSize, g_modEnabled |-> g_modEnabled,
      synth |-> synth, heap |-> heap, faults |-> faults,
      ret |-> ret, allocs |-> allocs, written |-> written,
      engineCalls |-> engineCalls, rendered |-> rendered]

SetW(w) ==
    /\ g_synth' = w.g_synth
    /\ g_outputBuffer' = w.g_outputBuffer
    /\ g_bufferSize' = w.g_bufferSize
    /\ g_modEnabled' = w.g_modEnabled
    /\ synth' = w.synth
    /\ heap' = w.heap
    /\ faults' = w.faults
    /\ ret' = w.ret
    /\ allocs' = w.allocs
    /\ written' = w.written
    /\ engineCalls' = w.engineCalls
    /\ rendered' = w.rendered

\* entry of an exported function: nothing returned, allocated, stored,
\* invoked or rendered yet
Enter(w) == [w EXCEPT !.ret = void, !.allocs = 0, !.written = 0,
                      !.engineCalls = <<>>, !.rendered = <<>>]

\* ------------------------------------------------------ the engine object
NoNote == -1

\* A freshly constructed engine.  init overwrites every parameter before it
\* can be observed; the voice starts idle with no pitch bend.
Open303 ==
    [sampleRate |-> 0, waveform |-> 0, tuning |-> 0, cutoff |-> 0,
     resonance |-> 0, envMod |-> 0, decay |-> 0, accent |-> 0, volume |-> 0,
     ampDecay |-> 0, accentDecay |-> 0, feedbackHighpass |-> 0,
     normalAttack |-> 0, slideTime |-> 0, tanhShaperDrive |-> 0,
     pitchBend |-> 0,
     currentNote |-> NoNote, previousNote |-> NoNote, gateOpen |-> FALSE,
     accented |-> FALSE, sliding |-> FALSE,
     ampEnv |-> "Idle", filterEnv |-> "Idle"]

\* g_synth->setX(value): the engine keeps the value it is handed.  A call
\* through a pointer whose object was deleted is a use after free.
SynthSet(w, field, value) ==
    IF w.heap[w.g_synth].k = "synth"
    THEN [w EXCEPT !.synth[field] = value,
                   !.engineCalls = Append(@, <<field, value>>)]
    ELSE [w EXCEPT !.faults = @ \cup {"use_after_free"}]

\* the six mod parameters at the original TB-303 values
SetTB303Values(w) ==
    LET w1 == SynthSet(w, "ampDecay", TB303_AMP_DECAY)
        w2 == SynthSet(w1, "accentDecay", TB303_ACCENT_DECAY)
        w3 == SynthSet(w2, "feedbackHighpass", TB303_FEEDBACK_HIGHPASS)
        w4 == SynthSet(w3, "normalAttack", TB303_NORMAL_ATTACK)
        w5 == SynthSet(w4, "slideTime", TB303_SLIDE_TIME)
    IN SynthSet(w5, "tanhShaperDrive", TB303_SHAPER_DRIVE)

\* Voice logic of the engine's noteOn(note, velocity, detune); velocity 0 is
\* a note-off.
VoiceTrigger(s, note, velocity) ==
    IF s.gateOpen
    THEN [s EXCEPT !.previousNote = s.currentNote, !.currentNote = note,
                   !.sliding = TRUE, !.accented = (velocity >= AccentThreshold)]
    ELSE [s EXCEPT !.currentNote = note, !.gateOpen = TRUE,
                   !.sliding = FALSE, !.accented = (velocity >= AccentThreshold),
                   !.ampEnv = "Attack", !.filterEnv = "Attack"]

VoiceRelease(s, note) ==
    IF note = s.currentNote THEN [s EXCEPT !.gateOpen = FALSE] ELSE s

Open303_noteOn(s, note, velocity) ==
    IF velocity = 0 THEN VoiceRelease(s, note) ELSE VoiceTrigger(s, note, velocity)

Open303_allNotesOff(s) ==
    [s EXCEPT !.gateOpen = FALSE, !.currentNote = NoNote,
              !.accented = FALSE, !.sliding = FALSE]

\* one stage of an envelope generator: Idle -> Attack -> Decay -> Idle
EnvNext(stage) ==
    CASE stage = "Attack" -> "Decay"
      [] stage = "Decay" -> "Idle"
      [] OTHER -> "Idle"

\* the engine's getSample over a block: the envelopes run on; elapsed says
\* whether the block was long enough to complete their current stage
Open303_getSample(s, elapsed) ==
    IF elapsed
    THEN [s EXCEPT !.ampEnv = EnvNext(@), !.filterEnv = EnvNext(@)]
    ELSE s

\* a call of an engine method that rewrites the engine's fields; call is the
\* method with its arguments
SynthCall(w, call, s) ==
    IF w.heap[w.g_synth].k = "synth"
    THEN [w EXCEPT !.synth = s, !.engineCalls = Append(@, call)]
    ELSE [w EXCEPT !.faults = @ \cup {"use_after_free"}]

\* ----------------------------------------------- jc303_wasm.cpp, extern "C"
\* A failed allocation: operator new returns no address (nullptr stands for
\* that here) and the function is left at once, by a std::bad_alloc that
\* passes through it or by an abort; the globals stay as they are at that
\* point and the module's exports can still be called.
BadAlloc(w) == [w EXCEPT !.ret = bad_alloc]

\* jc303_init, first half: the engine.  a1 is the address new returns.
init_engine(w, sampleRate, a1) ==
    LET w1 == IF w.g_synth # nullptr THEN Delete(w, w.g_synth) ELSE w
        w2 == New(w1, a1, SynthBlock)
    IN IF a1 = nullptr THEN BadAlloc(w1)
       ELSE SynthSet([w2 EXCEPT !.g_synth = a1, !.synth = Open303],
                     "sampleRate", sampleRate)

\* jc303_init, second half: the output buffer.  a2 is the address new[] returns.
init_buffer(w, bufferSize, a2) ==
    LET w1 == IF w.g_outputBuffer # nullptr THEN Delete(w, w.g_outputBuffer) ELSE w
        w2 == New(w1, a2, BufBlock(bufferSize))
    IN IF w.ret = bad_alloc THEN w
       ELSE IF a2 = nullptr THEN BadAlloc(w1)
       ELSE [w2 EXCEPT !.g_outputBuffer = a2, !.g_bufferSize = bufferSize]

\* faulty variant: init leaves g_modEnabled as it was
init_params_keepsMode(w) ==
    LET w1 == SynthSet(w, "waveform", DEFAULT_WAVEFORM \div 10)
        w2 == SynthSet(w1, "tuning",
                       linToLin(DEFAULT_TUNING, 0, 100, TUNING_MIN, TUNING_MAX))
        w3 == SynthSet(w2, "cutoff",
                       linToExp(DEFAULT_CUTOFF, 0, 100, CUTOFF_MIN, CUTOFF_MAX))
        w4 == SynthSet(w3, "resonance", DEFAULT_RESONANCE * 10)
        w5 == SynthSet(w4, "envMod", DEFAULT_ENVMOD * 10)
        w6 == SynthSet(w5, "decay",
                       linToExp(DEFAULT_DECAY, 0, 100, DECAY_NORMAL_MIN, DECAY_NORMAL_MAX))
        w7 == SynthSet(w6, "accent", DEFAULT_ACCENT * 10)
        w8 == SynthSet(w7, "volume", linToLin(DEFAULT_VOLUME, 0, 100, -600, 0))
        w9 == SetTB303Values(w8)
    IN [w9 EXCEPT !.ret = 1]

\* jc303_init, the rest: default parameters, TB-303 values, mod mode off
init_params(w) ==
    LET w1 == SynthSet(w, "waveform", DEFAULT_WAVEFORM \div 10)
        w2 == SynthSet(w1, "tuning",
                       linToLin(DEFAULT_TUNING, 0, 100, TUNING_MIN, TUNING_MAX))
        w3 == SynthSet(w2, "cutoff",
                       linToExp(DEFAULT_CUTOFF, 0, 100, CUTOFF_MIN, CUTOFF_MAX))
        w4 == SynthSet(w3, "resonance", DEFAULT_RESONANCE * 10)
        w5 == SynthSet(w4, "envMod", DEFAULT_ENVMOD * 10)
        w6 == SynthSet(w5, "decay",
                       linToExp(DEFAULT_DECAY, 0, 100, DECAY_NORMAL_MIN, DECAY_NORMAL_MAX))
        w7 == SynthSet(w6, "accent", DEFAULT_ACCENT * 10)
        w8 == SynthSet(w7, "volume", linToLin(DEFAULT_VOLUME, 0, 100, -600, 0))
        w9 == SetTB303Values(w8)
    IN IF w.ret = bad_alloc THEN w
       ELSE [w9 EXCEPT !.g_modEnabled = FALSE, !.ret = 1]

jc303_init(w, sampleRate, bufferSize, a1, a2) ==
    init_params(init_buffer(init_engine(Enter(w), sampleRate, a1), bufferSize, a2))

\* the addresses the two allocations of jc303_init may return
InitAddrs(w) ==
    {p \in Addrs \X Addrs :
        LET w1 == IF w.g_synth # nullptr THEN Delete(w, w.g_synth) ELSE w
        IN /\ p[1] \in FreeAddrs(w1)
           /\ LET w2 == [w1 EXCEPT !.heap[p[1]] = SynthBlock]
                  w3 == IF w2.g_outputBuffer # nullptr
                        THEN Delete(w2, w2.g_outputBuffer) ELSE w2
              IN p[2] \in FreeAddrs(w3)}

\* faulty variant: cleanup frees the engine but keeps the stale pointer
cleanup_keepsPointer(w) ==
    LET w0 == Enter(w)
        w1 == IF w0.g_synth # nullptr
              THEN [Delete(w0, w0.g_synth) EXCEPT !.synth = Open303]
              ELSE w0
        w2 == IF w1.g_outputBuffer # nullptr
              THEN [Delete(w1, w1.g_outputBuffer) EXCEPT !.g_outputBuffer = nullptr]
              ELSE w1
    IN [w2 EXCEPT !.g_bufferSize = 0]

jc303_cleanup(w) ==
    LET w0 == Enter(w)
        w1 == IF w0.g_synth # nullptr
              THEN [Delete(w0, w0.g_synth) EXCEPT !.g_synth = nullptr, !.synth = Open303]
              ELSE w0
        w2 == IF w1.g_outputBuffer # nullptr
              THEN [Delete(w1, w1.g_outputBuffer) EXCEPT !.g_outputBuffer = nullptr]
              ELSE w1
    IN [w2 EXCEPT !.g_bufferSize = 0]

\* the store g_outputBuffer[i] = ... for i in 0..numSamples-1
StoreSamples(w, numSamples) ==
    LET n == IF numSamples > 0 THEN numSamples ELSE 0
        blk == w.heap[w.g_outputBuffer]
        bad == (IF blk.k # "buf" /\ n > 0 THEN {"use_after_free"} ELSE {})
               \cup (IF blk.k = "buf" /\ n > blk.cap THEN {"oob_write"} ELSE {})
    IN [w EXCEPT !.written = n, !.faults = @ \cup bad]

\* faulty variant: the buffer is never grown
process_grow_never(w, numSamples, a) == w

\* faulty variant: the buffer is reallocated whenever the block size differs
process_grow_onAnyChange(w, numSamples, a) ==
    IF numSamples # w.g_bufferSize
    THEN [New(Delete(w, w.g_outputBuffer), a, BufBlock(numSamples))
            EXCEPT !.g_outputBuffer = a, !.g_bufferSize = numSamples]
    ELSE w

\* "Ensure buffer is large enough"; a is the address new[] returns
process_grow(w, numSamples, a) ==
    IF numSamples > w.g_bufferSize
    THEN IF a = nullptr THEN BadAlloc(Delete(w, w.g_outputBuffer))
         ELSE [New(Delete(w, w.g_outputBuffer), a, BufBlock(numSamples))
                 EXCEPT !.g_outputBuffer = a, !.g_bufferSize = numSamples]
    ELSE w

\* the sample loop: each sample is read from the engine and stored
process_render(w, numSamples, elapsed) ==
    IF numSamples > 0
    THEN LET w1 == [w EXCEPT !.rendered = <<w.synth>>]
             w2 == SynthCall(w1, <<"getSample">>, Open303_getSample(w1.synth, elapsed))
         IN StoreSamples(w2, numSamples)
    ELSE StoreSamples(w, numSamples)

jc303_process(w, numSamples, a, elapsed) ==
    LET w0 == Enter(w)
    IN IF w0.g_synth = nullptr \/ w0.g_outputBuffer = nullptr
       THEN [w0 EXCEPT !.ret = nullptr]
       ELSE LET w1 == process_grow(w0, numSamples, a)
                w2 == process_render(w1, numSamples, elapsed)
            IN IF w1.ret = bad_alloc THEN w1
               ELSE [w2 EXCEPT !.ret = w2.g_outputBuffer]

\* the addresses the reallocation inside jc303_process may return
ProcessAddrs(w) ==
    IF w.g_outputBuffer = nullptr THEN Addrs
    ELSE FreeAddrs(w) \cup {w.g_outputBuffer}

jc303_getOutputBuffer(w) == [Enter(w) EXCEPT !.ret = w.g_outputBuffer]

jc303_getBufferSize(w) == [Enter(w) EXCEPT !.ret = w.g_bufferSize]

\* faulty variant: the sounding note is released before the new one is
\* triggered
noteOn_releasesFirst(w, noteNumber, velocity) ==
    IF w.g_synth # nullptr
    THEN LET w1 == SynthCall(Enter(w), <<"noteOn", w.synth.currentNote, 0, 0>>,
                             Open303_noteOn(w.synth, w.synth.currentNote, 0))
         IN SynthCall(w1, <<"noteOn", noteNumber, velocity, 0>>,
                      Open303_noteOn(w1.synth, noteNumber, velocity))
    ELSE Enter(w)

jc303_noteOn(w, noteNumber, velocity) ==
    IF w.g_synth # nullptr
    THEN SynthCall(Enter(w), <<"noteOn", noteNumber, velocity, 0>>,
                   Open303_noteOn(w.synth, noteNumber, velocity))
    ELSE Enter(w)

\* faulty variant: the note-off releases whatever note is sounding
noteOff_ignoresNumber(w, noteNumber) ==
    IF w.g_synth # nullptr
    THEN SynthCall(Enter(w), <<"noteOn", w.synth.currentNote, 0, 0>>,
                   Open303_noteOn(w.synth, w.synth.currentNote, 0))
    ELSE Enter(w)

jc303_noteOff(w, noteNumber) ==
    IF w.g_synth # nullptr
    THEN SynthCall(Enter(w), <<"noteOn", noteNumber, 0, 0>>,
                   Open303_noteOn(w.synth, noteNumber, 0))
    ELSE Enter(w)

\* faulty variant: only the sounding note is released
allNotesOff_releasesOnly(w) ==
    IF w.g_synth # nullptr
    THEN SynthCall(Enter(w), <<"noteOn", w.synth.currentNote, 0, 0>>,
                   Open303_noteOn(w.synth, w.synth.currentNote, 0))
    ELSE Enter(w)

jc303_allNotesOff(w) ==
    IF w.g_synth # nullptr
    THEN SynthCall(Enter(w), <<"allNotesOff">>, Open303_allNotesOff(w.synth))
    ELSE Enter(w)

jc303_setWaveform(w, value) ==
    IF w.g_synth # nullptr
    THEN SynthSet(Enter(w), "waveform", linToLin(value, 0, 100, 0, 10))
    ELSE Enter(w)

jc303_setTuning(w, value) ==
    IF w.g_synth # nullptr
    THEN SynthSet(Enter(w), "tuning", linToLin(value, 0, 100, 4000, 4800))
    ELSE Enter(w)

jc303_setCutoff(w, value) ==
    IF w.g_synth # nullptr
    THEN SynthSet(Enter(w), "cutoff", linToExp(value, 0, 100, 3140, 23940))
    ELSE Enter(w)

jc303_setResonance(w, value) ==
    IF w.g_synth # nullptr
    THEN SynthSet(Enter(w), "resonance", linToLin(value, 0, 100, 0, 1000))
    ELSE Enter(w)

jc303_setEnvMod(w, value) ==
    IF w.g_synth # nullptr
    THEN SynthSet(Enter(w), "envMod", linToLin(value, 0, 100, 0, 1000))
    ELSE Enter(w)

jc303_setDecay(w, value) ==
    IF w.g_synth # nullptr
    THEN LET min == IF w.g_modEnabled THEN 300 ELSE 2000
             max == IF w.g_modEnabled THEN 30000 ELSE 20000
         IN SynthSet(Enter(w), "decay", linToExp(value, 0, 100, min, max))
    ELSE Enter(w)

jc303_setAccent(w, value) ==
    IF w.g_synth # nullptr
    THEN SynthSet(Enter(w), "accent", linToLin(value, 0, 100, 0, 1000))
    ELSE Enter(w)

jc303_setVolume(w, value) ==
    IF w.g_synth # nullptr
    THEN SynthSet(Enter(w), "volume", linToLin(value, 0, 100, -600, 0))
    ELSE Enter(w)

\* faulty variant: the TB-303 values are restored on enabling instead of on disabling
setModEnabled_restoresOnEnable(w, enabled) ==
    LET w1 == [Enter(w) EXCEPT !.g_modEnabled = (enabled # 0)]
    IN IF w1.g_synth = nullptr THEN w1
       ELSE IF w1.g_modEnabled THEN SetTB303Values(w1)
       ELSE w1

jc303_setModEnabled(w, enabled) ==
    LET w1 == [Enter(w) EXCEPT !.g_modEnabled = (enabled # 0)]
    IN IF w1.g_synth = nullptr THEN w1
       ELSE IF ~w1.g_modEnabled THEN SetTB303Values(w1)
       ELSE w1

jc303_setNormalDecay(w, value) ==
    IF w.g_synth # nullptr /\ w.g_modEnabled
    THEN SynthSet(Enter(w), "ampDecay", linToLin(value, 0, 100, 300, 30000))
    ELSE Enter(w)

jc303_setAccentDecay(w, value) ==
    IF w.g_synth # nullptr /\ w.g_modEnabled
    THEN SynthSet(Enter(w), "accentDecay", linToLin(value, 0, 100, 300, 30000))
    ELSE Enter(w)

jc303_setFeedbackFilter(w, value) ==
    IF w.g_synth # nullptr /\ w.g_modEnabled
    THEN SynthSet(Enter(w), "feedbackHighpass", linToExp(value, 0, 100, 3500, 1000))
    ELSE Enter(w)

jc303_setSoftAttack(w, value) ==
    IF w.g_synth # nullptr /\ w.g_modEnabled
    THEN SynthSet(Enter(w), "normalAttack", linToExp(value, 0, 100, 3, 30000))
    ELSE Enter(w)

\* faulty variant: the slide time is set without the null check
setSlideTime_noNullCheck(w, value) ==
    IF w.g_modEnabled
    THEN IF w.g_synth = nullptr
         THEN [Enter(w) EXCEPT !.faults = @ \cup {"null_dereference"}]
         ELSE SynthSet(Enter(w), "slideTime", linToLin(value, 0, 100, 20, 3600))
    ELSE Enter(w)

\* faulty variant: the slide time is set whatever the mode
setSlideTime_unguarded(w, value) ==
    IF w.g_synth # nullptr
    THEN SynthSet(Enter(w), "slideTime", linToLin(value, 0, 100, 20, 3600))
    ELSE Enter(w)

jc303_setSlideTime(w, value) ==
    IF w.g_synth # nullptr /\ w.g_modEnabled
    THEN SynthSet(Enter(w), "slideTime", linToLin(value, 0, 100, 20, 3600))
    ELSE Enter(w)

jc303_setSquareDriver(w, value) ==
    IF w.g_synth # nullptr /\ w.g_modEnabled
    THEN SynthSet(Enter(w), "tanhShaperDrive", linToLin(value, 0, 100, 250, 800))
    ELSE Enter(w)

jc303_setPitchBend(w, semitones) ==
    IF w.g_synth # nullptr
    THEN SynthSet(Enter(w), "pitchBend", semitones)
    ELSE Enter(w)

\* the numeric setters by parameter name, as JC303Processor.setParameter
\* dispatches them
SetterNames ==
    {"waveform", "tuning", "cutoff", "resonance", "envmod", "decay", "accent",
     "volume", "normalDecay", "accentDecay", "feedbackFilter", "softAttack",
     "slideTime", "squareDriver"}

setParameter(w, param, value) ==
    CASE param = "waveform" -> jc303_setWaveform(w, value)
      [] param = "tuning" -> jc303_setTuning(w, value)
      [] param = "cutoff" -> jc303_setCutoff(w, value)
      [] param = "resonance" -> jc303_setResonance(w, value)
      [] param = "envmod" -> jc303_setEnvMod(w, value)
      [] param = "decay" -> jc303_setDecay(w, value)
      [] param = "accent" -> jc303_setAccent(w, value)
      [] param = "volume" -> jc303_setVolume(w, value)
      [] param = "normalDecay" -> jc303_setNormalDecay(w, value)
      [] param = "accentDecay" -> jc303_setAccentDecay(w, value)
      [] param = "feedbackFilter" -> jc303_setFeedbackFilter(w, value)
      [] param = "softAttack" -> jc303_setSoftAttack(w, value)
      [] param = "slideTime" -> jc303_setSlideTime(w, value)
      [] param = "squareDriver" -> jc303_setSquareDriver(w, value)
      [] param = "pitchBend" -> jc303_setPitchBend(w, value)

\* JC303.constructor: the parameter cache
JC303_parameters ==
    [waveform |-> 100, tuning |-> 50, cutoff |-> 0, resonance |-> 92,
     envmod |-> 0, decay |-> 29, accent |-> 78, volume |-> 75,
     modEnabled |-> FALSE, normalDecay |-> 30, accentDecay |-> 3,
     feedbackFilter |-> 63, softAttack |-> 26, slideTime |-> 33,
     squareDriver |-> 25]

\* no mapping function applied yet
NotMapped == [fn |-> "none", in |-> 0, outMin |-> 0, outMax |-> 0, out |-> 0]

\* ------------------------------------------------------------ initial state
Init ==
    /\ g_synth = nullptr
    /\ g_outputBuffer = nullptr
    /\ g_bufferSize = 0
    /\ g_modEnabled = FALSE
    /\ synth = Open303
    /\ heap = [a \in Addrs |-> FreeBlock]
    /\ faults = {}
    /\ ret = void
    /\ allocs = 0
    /\ written = 0
    /\ engineCalls = <<>>
    /\ rendered = <<>>
    /\ lastCall = [op |-> "none", a |-> 0, b |-> 0, changed |-> FALSE, cap0 |-> 0]
    /\ maxReq = 0
    /\ keysDown = {}
    /\ lastTriggered = NoNote
    /\ nSetterCalls = 0
    /\ wasmModule = FALSE
    /\ wasmReady = FALSE
    /\ messageQueue = <<>>
    /\ initState = "loading"
    /\ posted = <<>>
    /\ received = <<>>
    /\ applied = <<>>
    /\ JC303_wasmModule = FALSE
    /\ isReady = FALSE
    /\ processorNode = FALSE
    /\ parameters = JC303_parameters
    /\ activeNotes = {}
    /\ initPending = FALSE
    /\ wasmCalls = <<>>
    /\ onaudioprocess = FALSE
    /\ mapped = NotMapped

\* ------------------------------------- calls on the C interface by a host
Max(x, y) == IF x >= y THEN x ELSE y

\* the record of a call: its name and arguments, whether it changed a field of
\* the engine, and the buffer size recorded when it was made
Called(op, a, b) ==
    lastCall' = [op |-> op, a |-> a, b |-> b, changed |-> (synth' # synth),
                 cap0 |-> g_bufferSize]

\* the allocator's choices for jc303_init: any free addresses, or (firstFit)
\* the lowest ones
InitChoices(firstFit) ==
    IF firstFit
    THEN {p \in InitAddrs(W) :
            \A q \in InitAddrs(W) : p[1] < q[1] \/ (p[1] = q[1] /\ p[2] <= q[2])}
    ELSE InitAddrs(W)

Call_init(rates, sizes, firstFit) ==
    \E sampleRate \in rates, bufferSize \in sizes, p \in InitChoices(firstFit) :
        /\ SetW(jc303_init(W, sampleRate, bufferSize, p[1], p[2]))
        /\ Called("init", sampleRate, bufferSize)
        /\ maxReq' = bufferSize
        /\ keysDown' = {}
        /\ lastTriggered' = NoNote
        /\ UNCHANGED <<nSetterCalls, workletVars, wrapperVars, mapped>>

Call_cleanup ==
    /\ SetW(jc303_cleanup(W))
    /\ Called("cleanup", 0, 0)
    /\ keysDown' = {}
    /\ lastTriggered' = NoNote
    /\ UNCHANGED <<maxReq, nSetterCalls, workletVars, wrapperVars, mapped>>

Call_process(sizes) ==
    \E numSamples \in sizes, a \in ProcessAddrs(W), elapsed \in BOOLEAN :
        /\ SetW(jc303_process(W, numSamples, a, elapsed))
        /\ Called("process", numSamples, maxReq)
        /\ maxReq' = IF g_synth # nullptr THEN Max(maxReq, numSamples) ELSE maxReq
        /\ UNCHANGED <<keysDown, lastTriggered, nSetterCalls, workletVars, wrapperVars, mapped>>

Call_getOutputBuffer ==
    /\ SetW(jc303_getOutputBuffer(W))
    /\ Called("getOutputBuffer", 0, 0)
    /\ UNCHANGED <<maxReq, keysDown, lastTriggered, nSetterCalls, workletVars, wrapperVars, mapped>>

Call_getBufferSize ==
    /\ SetW(jc303_getBufferSize(W))
    /\ Called("getBufferSize", 0, 0)
    /\ UNCHANGED <<maxReq, keysDown, lastTriggered, nSetterCalls, workletVars, wrapperVars, mapped>>

Notes == {60, 64, 67}
Velocities == {0, 64, 100}

Call_noteOn ==
    \E noteNumber \in Notes, velocity \in Velocities :
        /\ SetW(jc303_noteOn(W, noteNumber, velocity))
        /\ Called("noteOn", noteNumber, velocity)
        /\ keysDown' = IF velocity = 0 THEN keysDown \ {noteNumber}
                       ELSE keysDown \cup {noteNumber}
        /\ lastTriggered' = IF velocity = 0 THEN lastTriggered ELSE noteNumber
        /\ UNCHANGED <<maxReq, nSetterCalls, workletVars, wrapperVars, mapped>>

Call_noteOff ==
    \E noteNumber \in Notes :
        /\ SetW(jc303_noteOff(W, noteNumber))
        /\ Called("noteOff", noteNumber, 0)
        /\ keysDown' = keysDown \ {noteNumber}
        /\ UNCHANGED <<maxReq, lastTriggered, nSetterCalls, workletVars, wrapperVars, mapped>>

Call_allNotesOff ==
    /\ SetW(jc303_allNotesOff(W))
    /\ Called("allNotesOff", 0, 0)
    /\ keysDown' = {}
    /\ lastTriggered' = NoNote
    /\ UNCHANGED <<maxReq, nSetterCalls, workletVars, wrapperVars, mapped>>

Call_set(values) ==
    \E param \in SetterNames, value \in values :
        /\ nSetterCalls < MaxSetterCalls
        /\ SetW(setParameter(W, param, value))
        /\ Called(param, value, 0)
        /\ nSetterCalls' = nSetterCalls + 1
        /\ UNCHANGED <<maxReq, keysDown, lastTriggered, workletVars, wrapperVars, mapped>>

Call_setModEnabled ==
    \E enabled \in {0, 1} :
        /\ SetW(jc303_setModEnabled(W, enabled))
        /\ Called("setModEnabled", enabled, 0)
        /\ UNCHANGED <<maxReq, keysDown, lastTriggered, nSetterCalls, workletVars, wrapperVars, mapped>>

\* ---------------------------------------------------------- specifications
\* lifecycle and memory: init, process, cleanup, the two getters, and
\* allNotesOff, which the JC303 wrapper's destroy calls before cleanup
Next ==
    \/ Call_init(SampleRates, BufSizes, FALSE)
    \/ Call_cleanup
    \/ Call_process(-1..(MaxBuf + 1))
    \/ Call_getOutputBuffer
    \/ Call_getBufferSize
    \/ Call_allNotesOff

Spec == Init /\ [][Next]_vars

\* parameters: init, cleanup, the setters and the mod switch
NextParams ==
    \/ Call_init({44100}, {1, MaxBuf}, TRUE)
    \/ Call_cleanup
    \/ Call_set(NormInputs)
    \/ Call_setModEnabled

SpecParams == Init /\ [][NextParams]_vars

\* the same with every normalized input inside [0,1]
NextParamsValid ==
    \/ Call_init({44100}, {1, MaxBuf}, TRUE)
    \/ Call_cleanup
    \/ Call_set({v \in NormInputs : 0 <= v /\ v <= 100})
    \/ Call_setModEnabled

SpecParamsValid == Init /\ [][NextParamsValid]_vars

\* notes: init, cleanup, the three note calls, and process, in which the
\* envelopes run on
NextNotes ==
    \/ Call_init({44100}, {MaxBuf}, TRUE)
    \/ Call_cleanup
    \/ Call_process({MaxBuf})
    \/ Call_noteOn
    \/ Call_noteOff
    \/ Call_allNotesOff

SpecNotes == Init /\ [][NextNotes]_vars

\* the ways the two allocations of jc303_init can fail: the first, or the
\* second after the first has succeeded
InitFailures(w) ==
    {<<nullptr, nullptr>>}
        \cup {<<a1, nullptr>> :
                 a1 \in FreeAddrs(IF w.g_synth # nullptr THEN Delete(w, w.g_synth) ELSE w)}

\* jc303_init with an allocation that fails; a negative bufferSize is a
\* request new[] cannot meet
Call_init_badAlloc(rates, sizes) ==
    \E sampleRate \in rates, bufferSize \in sizes, p \in InitFailures(W) :
        /\ SetW(jc303_init(W, sampleRate, bufferSize, p[1], p[2]))
        /\ Called("init", sampleRate, bufferSize)
        /\ maxReq' = maxReq
        /\ keysDown' = {}
        /\ lastTriggered' = NoNote
        /\ UNCHANGED <<nSetterCalls, workletVars, wrapperVars, mapped>>

\* jc303_process whose reallocation of the buffer fails
Call_process_badAlloc(sizes) ==
    \E numSamples \in sizes, elapsed \in BOOLEAN :
        /\ g_synth # nullptr /\ g_outputBuffer # nullptr
        /\ numSamples > g_bufferSize
        /\ SetW(jc303_process(W, numSamples, nullptr, elapsed))
        /\ Called("process", numSamples, maxReq)
        /\ UNCHANGED <<maxReq, keysDown, lastTriggered, nSetterCalls,
                       workletVars, wrapperVars, mapped>>

\* lifecycle and memory when allocations can fail
NextAlloc ==
    \/ Call_init({44100}, BufSizes, FALSE)
    \/ Call_init_badAlloc({44100}, BufSizes \cup {-1})
    \/ Call_cleanup
    \/ Call_process(0..(MaxBuf + 1))
    \/ Call_process_badAlloc(0..(MaxBuf + 1))

SpecAlloc == Init /\ [][NextAlloc]_vars

\* ------------------------------ jc303-worklet-processor.js: JC303Processor
Msg(type, note, velocity, param, value, enabled) ==
    [type |-> type, note |-> note, velocity |-> velocity, param |-> param,
     value |-> value, enabled |-> enabled]

\* the messages the main thread sends in this model
PortMessages ==
    {Msg("noteOn", 60, 100, "", 0, FALSE),
     Msg("noteOn", 64, 64, "", 0, FALSE),
     Msg("noteOff", 60, 0, "", 0, FALSE),
     Msg("allNotesOff", 0, 0, "", 0, FALSE),
     Msg("setParameter", 0, 0, "cutoff", 50, FALSE),
     Msg("setParameter", 0, 0, "decay", 0, FALSE),
     Msg("setModEnabled", 0, 0, "", 0, TRUE),
     Msg("setModEnabled", 0, 0, "", 0, FALSE)}

\* processMessage(data); module is this.wasmModule
processMessage(w, module, data) ==
    IF ~module THEN w
    ELSE
    CASE data.type = "noteOn" -> jc303_noteOn(w, data.note, data.velocity)
      [] data.type = "noteOff" -> jc303_noteOff(w, data.note)
      [] data.type = "allNotesOff" -> jc303_allNotesOff(w)
      [] data.type = "setParameter" -> setParameter(w, data.param, data.value)
      [] data.type = "setModEnabled" ->
            jc303_setModEnabled(w, IF data.enabled THEN 1 ELSE 0)
      [] OTHER -> w

\* while (this.messageQueue.length > 0) this.processMessage(this.messageQueue.shift())
RECURSIVE DrainQueue(_, _)
DrainQueue(w, queue) ==
    IF queue = <<>> THEN w
    ELSE DrainQueue(processMessage(w, TRUE, Head(queue).data), Tail(queue))

QueueIds(queue) == [i \in 1..Len(queue) |-> queue[i].id]

\* faulty variant: the block is rendered first and the queue drained after it
process_block_renderFirst(w, queue, a, elapsed) ==
    DrainQueue(jc303_process(w, 128, a, elapsed), queue)

\* the body of process once the module is ready: the queued messages are
\* applied, then one block of 128 samples is rendered
process_block(w, queue, a, elapsed) ==
    jc303_process(DrainQueue(w, queue), 128, a, elapsed)

\* faulty variant: a message is kept only while nothing else is pending
Enqueue_onlyWhenEmpty(queue, item) ==
    IF queue = <<>> THEN <<item>> ELSE queue

\* this.messageQueue.push(data)
Enqueue(queue, item) == Append(queue, item)

\* faulty variant: the error report follows the ready report
initWasm_posts_both(success) == <<"ready", "error">>

\* what initWasm posts once init has returned success
initWasm_posts(success) == IF success THEN <<"ready">> ELSE <<"error">>

\* initWasm: the module loads, init(sampleRate, 128) is called
initWasm_loaded ==
    /\ initState = "loading"
    /\ \E p \in InitAddrs(W) :
          LET w == jc303_init(W, 44100, 128, p[1], p[2])
          IN /\ SetW(w)
             /\ wasmReady' = (w.ret # 0)
             /\ posted' = posted \o initWasm_posts(w.ret # 0)
    /\ wasmModule' = TRUE
    /\ initState' = "done"
    /\ Called("init", 44100, 128)
    /\ maxReq' = 128
    /\ UNCHANGED <<keysDown, lastTriggered, nSetterCalls, messageQueue,
                   received, applied, wrapperVars, mapped>>

\* initWasm: loading the module throws
initWasm_failed ==
    /\ initState = "loading"
    /\ initState' = "done"
    /\ posted' = Append(posted, "error")
    /\ UNCHANGED <<wasmVars, histVars, wasmModule, wasmReady, messageQueue,
                   received, applied, wrapperVars, mapped>>

\* port.onmessage -> handleMessage(data)
handleMessage ==
    \E data \in PortMessages :
        LET id == Len(received) + 1
        IN /\ Len(received) < MaxMsgs
           /\ received' = Append(received, id)
           /\ IF ~wasmReady
              THEN /\ messageQueue' = Enqueue(messageQueue, [id |-> id, data |-> data])
                   /\ UNCHANGED <<wasmVars, applied, lastCall>>
              ELSE /\ SetW(processMessage(W, wasmModule, data))
                   /\ applied' = Append(applied, id)
                   /\ Called(data.type, id, 0)
                   /\ UNCHANGED messageQueue
           /\ UNCHANGED <<maxReq, keysDown, lastTriggered, nSetterCalls,
                          wasmModule, wasmReady, initState, posted,
                          wrapperVars, mapped>>

\* process(inputs, outputs, parameters); channel is outputs[0][0]
process ==
    \E hasChannel \in BOOLEAN, a \in ProcessAddrs(W), elapsed \in BOOLEAN :
        IF ~wasmReady \/ ~hasChannel
        THEN UNCHANGED vars
        ELSE /\ SetW(process_block(W, messageQueue, a, elapsed))
             /\ applied' = applied \o QueueIds(messageQueue)
             /\ messageQueue' = <<>>
             /\ Called("JC303Processor.process", 128, Len(messageQueue))
             /\ maxReq' = Max(maxReq, 128)
             /\ UNCHANGED <<keysDown, lastTriggered, nSetterCalls, wasmModule,
                            wasmReady, initState, posted, received,
                            wrapperVars, mapped>>

NextWorklet ==
    \/ initWasm_loaded
    \/ initWasm_failed
    \/ handleMessage
    \/ process

SpecWorklet == Init /\ [][NextWorklet]_vars

\* the step of initWasm_loaded or initWasm_failed: initWasm finishes
InitSettles == initState = "loading" /\ initState' = "done"

\* the step of process that finds the module ready, a channel, and pending
\* messages
QueueDrained == wasmReady /\ messageQueue # <<>> /\ messageQueue' = <<>>

\* the worklet when the promise of the module factory settles and the audio
\* thread keeps calling process with an output channel
SpecWorkletLive ==
    /\ Init
    /\ [][NextWorklet]_vars
    /\ WF_initState(InitSettles)
    /\ WF_messageQueue(QueueDrained)

\* ------------------------------------------------ jc303-web.js: class JC303
Min(x, y) == IF x <= y THEN x ELSE y

\* Math.max(0, Math.min(1, value)), in hundredths; Math.min and Math.max
\* return NaN when an operand is NaN
Clamp(value) == IF value = NaN THEN NaN ELSE Max(0, Min(100, value))

ModSetterNames ==
    {"normalDecay", "accentDecay", "feedbackFilter", "softAttack", "slideTime",
     "squareDriver"}

\* await JC303Module(): a new instance of the WASM module with its own memory
JC303Module ==
    [g_synth |-> nullptr, g_outputBuffer |-> nullptr, g_bufferSize |-> 0,
     g_modEnabled |-> FALSE, synth |-> Open303,
     heap |-> [a \in Addrs |-> FreeBlock], faults |-> {}, ret |-> void,
     allocs |-> 0, written |-> 0, engineCalls |-> <<>>, rendered |-> <<>>]

\* this.wasmModule.f(a, b): one call through the bindings, <<f, a, b>>; the
\* numeric setters go by their parameter name
WasmCall(w, call) ==
    CASE call[1] = "noteOn" -> jc303_noteOn(w, call[2], call[3])
      [] call[1] = "noteOff" -> jc303_noteOff(w, call[2])
      [] call[1] = "allNotesOff" -> jc303_allNotesOff(w)
      [] call[1] = "setModEnabled" -> jc303_setModEnabled(w, call[2])
      [] call[1] = "cleanup" -> jc303_cleanup(w)
      [] OTHER -> setParameter(w, call[1], call[2])

\* the module after a sequence of calls, made in order
RECURSIVE WasmCalls(_, _)
WasmCalls(w, calls) ==
    IF calls = <<>> THEN w
    ELSE WasmCalls(WasmCall(w, Head(calls)), Tail(calls))

\* the six mod setter calls in the order the wrapper makes them
applyModParameters_calls(params) ==
    <<<<"normalDecay", params.normalDecay, 0>>,
      <<"accentDecay", params.accentDecay, 0>>,
      <<"feedbackFilter", params.feedbackFilter, 0>>,
      <<"softAttack", params.softAttack, 0>>,
      <<"slideTime", params.slideTime, 0>>,
      <<"squareDriver", params.squareDriver, 0>>>>

applyModParameters(w, params) == WasmCalls(w, applyModParameters_calls(params))

\* the calls of applyAllParameters(); module is this.wasmModule
applyAllParameters_calls(module, params) ==
    IF ~module THEN <<>>
    ELSE <<<<"waveform", params.waveform, 0>>,
           <<"tuning", params.tuning, 0>>,
           <<"cutoff", params.cutoff, 0>>,
           <<"resonance", params.resonance, 0>>,
           <<"envmod", params.envmod, 0>>,
           <<"decay", params.decay, 0>>,
           <<"accent", params.accent, 0>>,
           <<"volume", params.volume, 0>>,
           <<"setModEnabled", IF params.modEnabled THEN 1 ELSE 0, 0>>>>
         \o (IF params.modEnabled THEN applyModParameters_calls(params) ELSE <<>>)

applyAllParameters(w, module, params) ==
    WasmCalls(w, applyAllParameters_calls(module, params))

\* the lowest of the address pairs the allocator may return
FirstFit(S) ==
    {p \in S : \A q \in S : p[1] < q[1] \/ (p[1] = q[1] /\ p[2] <= q[2])}

\* init(): up to the await of the module
JC303_init_await ==
    /\ ~initPending
    /\ initPending' = TRUE
    /\ wasmCalls' = <<>>
    /\ UNCHANGED <<wasmVars, histVars, workletVars, JC303_wasmModule, isReady,
                   processorNode, parameters, activeNotes, onaudioprocess,
                   mapped>>

\* init(): the module has loaded; the rest of init runs to its end
JC303_init_loaded ==
    /\ initPending
    /\ initPending' = FALSE
    /\ JC303_wasmModule' = TRUE
    /\ \E p \in FirstFit(InitAddrs(JC303Module)) :
          LET m == [JC303Module EXCEPT !.faults = faults]
              w == jc303_init(m, 44100, 256, p[1], p[2])
              success == (w.ret # 0)
              calls == IF success THEN applyAllParameters_calls(TRUE, parameters)
                       ELSE <<>>
          IN /\ SetW(WasmCalls(w, calls))
             /\ wasmCalls' = <<<<"init", 44100, 256>>>> \o calls
             /\ processorNode' = (success \/ processorNode)
             /\ onaudioprocess' = (success \/ onaudioprocess)
             /\ isReady' = (success \/ isReady)
    /\ Called("JC303.init", 44100, 256)
    /\ maxReq' = 256
    /\ keysDown' = {}
    /\ lastTriggered' = NoNote
    /\ UNCHANGED <<nSetterCalls, workletVars, parameters, activeNotes, mapped>>

\* init(): loading the module throws; init returns false
JC303_init_failed ==
    /\ initPending
    /\ initPending' = FALSE
    /\ wasmCalls' = <<>>
    /\ UNCHANGED <<wasmVars, histVars, workletVars, JC303_wasmModule, isReady,
                   processorNode, parameters, activeNotes, onaudioprocess,
                   mapped>>

\* onaudioprocess of a ScriptProcessor node the wrapper has created, 256
\* samples per callback; an event can still arrive after destroy has
\* disconnected the node
JC303_onaudioprocess ==
    /\ onaudioprocess
    /\ IF ~isReady
       THEN /\ wasmCalls' = <<>>
            /\ UNCHANGED <<wasmVars, maxReq>>
       ELSE /\ \E a \in ProcessAddrs(W), elapsed \in BOOLEAN :
                  SetW(jc303_process(W, 256, a, elapsed))
            /\ wasmCalls' = <<<<"process", 256, 0>>>>
            /\ maxReq' = Max(maxReq, 256)
    /\ Called("JC303.onaudioprocess", 256, maxReq)
    /\ UNCHANGED <<keysDown, lastTriggered, nSetterCalls, workletVars,
                   JC303_wasmModule, isReady, processorNode, parameters,
                   activeNotes, onaudioprocess, initPending, mapped>>

\* faulty variant: noteOn without the isReady check
noteOn_calls_unguarded(ready, note, velocity) == <<<<"noteOn", note, velocity>>>>

\* the calls noteOn(note, velocity) makes into the module
JC303_noteOn_calls(ready, note, velocity) ==
    IF ~ready THEN <<>> ELSE <<<<"noteOn", note, velocity>>>>

JC303_noteOn ==
    \E note \in Notes, velocity \in Velocities :
        LET calls == JC303_noteOn_calls(isReady, note, velocity)
        IN /\ wasmCalls' = calls
           /\ IF calls = <<>>
              THEN UNCHANGED <<wasmVars, activeNotes, keysDown, lastTriggered>>
              ELSE /\ SetW(WasmCalls(W, calls))
                   /\ activeNotes' = activeNotes \cup {note}
                   /\ keysDown' = IF velocity = 0 THEN keysDown \ {note}
                                  ELSE keysDown \cup {note}
                   /\ lastTriggered' = IF velocity = 0 THEN lastTriggered ELSE note
           /\ Called("JC303.noteOn", note, velocity)
           /\ UNCHANGED <<maxReq, nSetterCalls, workletVars, JC303_wasmModule,
                          isReady, processorNode, parameters, onaudioprocess,
                          initPending, mapped>>

JC303_noteOff ==
    \E note \in Notes :
        /\ IF ~isReady
           THEN /\ wasmCalls' = <<>>
                /\ UNCHANGED <<wasmVars, activeNotes, keysDown>>
           ELSE /\ SetW(jc303_noteOff(W, note))
                /\ wasmCalls' = <<<<"noteOff", note, 0>>>>
                /\ activeNotes' = activeNotes \ {note}
                /\ keysDown' = keysDown \ {note}
        /\ Called("JC303.noteOff", note, 0)
        /\ UNCHANGED <<maxReq, lastTriggered, nSetterCalls, workletVars,
                       JC303_wasmModule, isReady, processorNode, parameters,
                       onaudioprocess, initPending, mapped>>

JC303_allNotesOff ==
    /\ IF ~isReady
       THEN /\ wasmCalls' = <<>>
            /\ UNCHANGED <<wasmVars, activeNotes, keysDown, lastTriggered>>
       ELSE /\ SetW(jc303_allNotesOff(W))
            /\ wasmCalls' = <<<<"allNotesOff", 0, 0>>>>
            /\ activeNotes' = {}
            /\ keysDown' = {}
            /\ lastTriggered' = NoNote
    /\ Called("JC303.allNotesOff", 0, 0)
    /\ UNCHANGED <<maxReq, nSetterCalls, workletVars, JC303_wasmModule, isReady,
                   processorNode, parameters, onaudioprocess, initPending,
                   mapped>>

\* one of setWaveform .. setSquareDriver on the wrapper st = [parameters,
\* calls]: clamp, cache, pass the cached value on; module is this.wasmModule
JC303_setter(st, module, param, value) ==
    LET params == [st.parameters EXCEPT ![param] = Clamp(value)]
        pass == module /\ (param \in ModSetterNames => params.modEnabled)
    IN [parameters |-> params,
        calls |-> IF pass THEN Append(st.calls, <<param, params[param], 0>>)
                  ELSE st.calls]

\* the parameter whose setter is named set<Key> for a key of the object given
\* to setParameters, "none" where the class has no method of that name: the
\* cache field envmod is set by setEnvMod
SetterOf(key) ==
    CASE key = "envMod" -> "envmod"
      [] key = "envmod" -> "none"
      [] key \in SetterNames -> key
      [] OTHER -> "none"

\* setParameters(params): entries is Object.entries(params)
RECURSIVE JC303_setParameters_loop(_, _, _)
JC303_setParameters_loop(st, module, entries) ==
    IF entries = <<>> THEN st
    ELSE LET param == SetterOf(Head(entries)[1])
             st1 == IF param = "none" THEN st
                    ELSE JC303_setter(st, module, param, Head(entries)[2])
         IN JC303_setParameters_loop(st1, module, Tail(entries))

\* setWaveform .. setSquareDriver
JC303_set(values) ==
    \E param \in SetterNames, value \in values :
        LET st == JC303_setter([parameters |-> parameters, calls |-> <<>>],
                               JC303_wasmModule, param, value)
        IN /\ nSetterCalls < MaxSetterCalls
           /\ nSetterCalls' = nSetterCalls + 1
           /\ parameters' = st.parameters
           /\ wasmCalls' = st.calls
           /\ SetW(WasmCalls(W, st.calls))
           /\ Called("JC303.set", value, param)
           /\ UNCHANGED <<maxReq, keysDown, lastTriggered, workletVars,
                          JC303_wasmModule, isReady, processorNode, activeNotes,
                          onaudioprocess, initPending, mapped>>

\* setParameters with an object of one or two entries
JC303_setParameters(keys, values) ==
    \E n \in 1..2, e1 \in keys \X values, e2 \in keys \X values :
        LET list == IF n = 1 THEN <<e1>> ELSE <<e1, e2>>
            st == JC303_setParameters_loop(
                      [parameters |-> parameters, calls |-> <<>>],
                      JC303_wasmModule, list)
        IN /\ nSetterCalls + Len(list) <= MaxSetterCalls
           /\ nSetterCalls' = nSetterCalls + Len(list)
           /\ parameters' = st.parameters
           /\ wasmCalls' = st.calls
           /\ SetW(WasmCalls(W, st.calls))
           /\ Called("JC303.setParameters", Len(list), 0)
           /\ UNCHANGED <<maxReq, keysDown, lastTriggered, workletVars,
                          JC303_wasmModule, isReady, processorNode, activeNotes,
                          onaudioprocess, initPending, mapped>>

\* the calls of setModEnabled(enabled); params is the cache after the store
JC303_setModEnabled_calls(module, params) ==
    IF ~module THEN <<>>
    ELSE <<<<"setModEnabled", IF params.modEnabled THEN 1 ELSE 0, 0>>>>
         \o (IF params.modEnabled THEN applyModParameters_calls(params) ELSE <<>>)

JC303_setModEnabled ==
    \E enabled \in BOOLEAN :
        LET params == [parameters EXCEPT !.modEnabled = enabled]
            calls == JC303_setModEnabled_calls(JC303_wasmModule, params)
        IN /\ parameters' = params
           /\ wasmCalls' = calls
           /\ SetW(WasmCalls(W, calls))
           /\ Called("JC303.setModEnabled", IF enabled THEN 1 ELSE 0, 0)
           /\ UNCHANGED <<maxReq, keysDown, lastTriggered, nSetterCalls,
                          workletVars, JC303_wasmModule, isReady, processorNode,
                          activeNotes, onaudioprocess, initPending, mapped>>

JC303_destroy ==
    LET calls == (IF isReady THEN <<<<"allNotesOff", 0, 0>>>> ELSE <<>>)
                 \o (IF JC303_wasmModule THEN <<<<"cleanup", 0, 0>>>> ELSE <<>>)
    IN /\ SetW(WasmCalls(W, calls))
       /\ wasmCalls' = calls
       /\ activeNotes' = IF isReady THEN {} ELSE activeNotes
       /\ processorNode' = FALSE
       /\ JC303_wasmModule' = FALSE
       /\ isReady' = FALSE
       /\ Called("JC303.destroy", 0, 0)
       /\ keysDown' = {}
       /\ lastTriggered' = NoNote
       /\ UNCHANGED <<maxReq, nSetterCalls, workletVars, parameters,
                      onaudioprocess, initPending, mapped>>

\* the wrapper playing notes
NextWrapperNotes ==
    \/ JC303_init_await
    \/ JC303_init_loaded
    \/ JC303_init_failed
    \/ JC303_onaudioprocess
    \/ JC303_noteOn
    \/ JC303_noteOff
    \/ JC303_allNotesOff
    \/ JC303_destroy

SpecWrapperNotes == Init /\ [][NextWrapperNotes]_vars

\* the wrapper setting parameters
NextWrapperParams ==
    \/ JC303_init_await
    \/ JC303_init_loaded
    \/ JC303_init_failed
    \/ JC303_set(NormInputs)
    \/ JC303_setModEnabled
    \/ JC303_destroy

SpecWrapperParams == Init /\ [][NextWrapperParams]_vars

\* numbers handed to the wrapper's setters: below, inside and above [0,1],
\* and NaN
WrapperInputs == {-50, 50, 150, NaN}

\* keys of the objects handed to setParameters
ParameterKeys == {"cutoff", "envmod", "envMod", "slideTime"}

\* the wrapper's setters and setParameters with arbitrary numbers
NextWrapperInputs ==
    \/ JC303_init_await
    \/ JC303_init_loaded
    \/ JC303_init_failed
    \/ JC303_set(WrapperInputs)
    \/ JC303_setParameters(ParameterKeys, WrapperInputs)
    \/ JC303_setModEnabled

SpecWrapperInputs == Init /\ [][NextWrapperInputs]_vars

\* ------------------------------------------- the mapping functions alone
\* the inputs applied: -0.5 to 1.5 in steps of 0.05
MapInputs == {5 * k : k \in -10..30}

\* the output ranges the module passes to linToLin and to linToExp
LinRanges ==
    {<<4000, 4800>>, <<0, 10>>, <<0, 1000>>, <<-600, 0>>, <<300, 30000>>,
     <<20, 3600>>, <<250, 800>>}
ExpRanges ==
    {<<3140, 23940>>, <<2000, 20000>>, <<300, 30000>>, <<3500, 1000>>,
     <<3, 30000>>}

Apply_linToLin ==
    \E in \in MapInputs, r \in LinRanges :
        /\ mapped' = [fn |-> "linToLin", in |-> in, outMin |-> r[1], outMax |-> r[2],
                      out |-> linToLin(in, 0, 100, r[1], r[2])]
        /\ UNCHANGED <<wasmVars, histVars, workletVars, wrapperVars>>

Apply_linToExp ==
    \E in \in MapInputs, r \in ExpRanges :
        /\ mapped' = [fn |-> "linToExp", in |-> in, outMin |-> r[1], outMax |-> r[2],
                      out |-> linToExp(in, 0, 100, r[1], r[2])]
        /\ UNCHANGED <<wasmVars, histVars, workletVars, wrapperVars>>

NextMapper ==
    \/ Apply_linToLin
    \/ Apply_linToExp

SpecMapper == Init /\ [][NextMapper]_vars

\* ------------------------------------------------------------------ claims
InRange(x, lo, hi) == lo <= x /\ x <= hi

\* C1: whenever extended (mod) mode is switched off on an initialized engine,
\* the six dependent parameters hold the fixed defaults (amp decay 1230 ms,
\* accent decay 200 ms, feedback highpass 150 Hz, normal attack 3 ms, slide
\* time 60 ms, shaper drive 36.9), whatever the mod setters had set.
C1_ModeOffRestoresDefaults ==
    (lastCall.op = "setModEnabled" /\ lastCall.a = 0 /\ g_synth # nullptr) =>
        /\ synth.ampDecay = 12300
        /\ synth.accentDecay = 2000
        /\ synth.feedbackHighpass = 1500
        /\ synth.normalAttack = 30
        /\ synth.slideTime = 600
        /\ synth.tanhShaperDrive = 369

\* the switch-off discarded a value a mod setter had set
C1_Witness ==
    /\ lastCall.op = "setModEnabled" /\ lastCall.a = 0
    /\ g_synth # nullptr
    /\ lastCall.changed
    /\ nSetterCalls > 0

\* C2: after any sequence of setter calls with arbitrary normalized inputs,
\* every main parameter handed to the engine lies within its documented range
\* (waveform 0..1, tuning 400..480 Hz, cutoff 314..2394 Hz, resonance, env-mod
\* and accent 0..100 %, volume -60..0 dB).
C2_ParamsWithinRange ==
    g_synth # nullptr =>
        /\ InRange(synth.waveform, 0, 10)
        /\ InRange(synth.tuning, 4000, 4800)
        /\ InRange(synth.cutoff, 3140, 23940)
        /\ InRange(synth.resonance, 0, 1000)
        /\ InRange(synth.envMod, 0, 1000)
        /\ InRange(synth.accent, 0, 1000)
        /\ InRange(synth.volume, -600, 0)

\* C3: whenever extended mode is disabled, the filter decay held by the engine
\* lies in the normal range [200, 2000] ms, after any interleaving of setDecay
\* and setModEnabled calls (normalized inputs inside [0,1]).
C3_NormalModeDecayRange ==
    (g_synth # nullptr /\ ~g_modEnabled) => InRange(synth.decay, 2000, 20000)

\* C4: the worklet applies note and parameter events to the engine in exactly
\* the order in which they were received, also those received before the
\* module was ready, and a process call that renders has applied every event
\* received before it.
C4_AppliedInOrderReceived ==
    /\ \A i, j \in 1..Len(applied) : i < j => applied[i] < applied[j]
    /\ (lastCall.op = "process" /\ wasmReady) =>
            (messageQueue = <<>> /\ applied = received)

\* C5: init returns 0 when sampleRate is non-positive and returns 1 only when
\* the sample rate is valid and a usable engine and output buffer exist.
C5_InitReportsFailure ==
    lastCall.op = "init" =>
        /\ lastCall.a <= 0 => ret = 0
        /\ ret = 1 => (lastCall.a > 0 /\ g_synth # nullptr /\ g_outputBuffer # nullptr)

\* C6: init called in any state leaves the same default state: a fresh engine
\* (idle voice and envelopes, no pitch bend), the main parameters at their defaults (square
\* wave, 440 Hz, 314 Hz cutoff, 92 % resonance, no env-mod, 29 % of the normal
\* decay range, 78 % accent, -15 dB), the six mod parameters at the fixed
\* defaults, extended mode disabled, and a live output buffer whose capacity
\* and recorded size equal the requested bufferSize.
C6_InitGivesDefaultState ==
    lastCall.op = "init" =>
        /\ g_synth # nullptr
        /\ heap[g_synth] = SynthBlock
        /\ synth = [sampleRate |-> lastCall.a, waveform |-> 10, tuning |-> 4400,
                    cutoff |-> 3140, resonance |-> 920, envMod |-> 0,
                    decay |-> linToExp(29, 0, 100, 2000, 20000),
                    accent |-> 780, volume |-> -150,
                    ampDecay |-> 12300, accentDecay |-> 2000,
                    feedbackHighpass |-> 1500, normalAttack |-> 30,
                    slideTime |-> 600, tanhShaperDrive |-> 369,
                    pitchBend |-> 0,
                    currentNote |-> NoNote, previousNote |-> NoNote,
                    gateOpen |-> FALSE, accented |-> FALSE, sliding |-> FALSE,
                    ampEnv |-> "Idle", filterEnv |-> "Idle"]
        /\ ~g_modEnabled
        /\ g_outputBuffer # nullptr
        /\ heap[g_outputBuffer] = BufBlock(lastCall.b)
        /\ g_bufferSize = lastCall.b
        /\ faults = {}

\* init hit an engine that was already initialized with another buffer size
\* and whose fields had been changed by setter calls
C6_Witness ==
    /\ lastCall.op = "init"
    /\ lastCall.cap0 > 0 /\ lastCall.cap0 # lastCall.b
    /\ lastCall.changed
    /\ nSetterCalls = MaxSetterCalls

\* C7: teardown is idempotent and safe in every state: after cleanup, called
\* once or several times, before or after init, there is no engine, no output
\* buffer, the recorded size is 0 and nothing stays allocated; no block is
\* ever freed twice.
C7_CleanupIdempotent ==
    /\ "double_free" \notin faults
    /\ lastCall.op = "cleanup" =>
          /\ g_synth = nullptr
          /\ g_outputBuffer = nullptr
          /\ g_bufferSize = 0
          /\ \A a \in Addrs : heap[a] = FreeBlock

\* a cleanup that found nothing left to free, after an init had happened
C7_Witness ==
    /\ lastCall.op = "cleanup"
    /\ allocs = 0
    /\ maxReq > 0

\* C8: on an initialized engine process(numSamples), numSamples >= 0, returns
\* the non-null pointer of the module's live buffer (the one getOutputBuffer
\* reports), has stored exactly numSamples samples and none past the
\* capacity, and leaves a capacity and recorded size of at least numSamples.
C8_ProcessReturnsBuffer ==
    /\ (lastCall.op = "process" /\ g_synth # nullptr /\ lastCall.a >= 0) =>
          /\ ret # nullptr
          /\ ret = g_outputBuffer
          /\ heap[g_outputBuffer].k = "buf"
          /\ heap[g_outputBuffer].cap >= lastCall.a
          /\ g_bufferSize >= lastCall.a
          /\ written = lastCall.a
          /\ faults = {}
    /\ lastCall.op = "getOutputBuffer" => ret = g_outputBuffer

\* a process call that had to grow the buffer
C8_Witness ==
    /\ lastCall.op = "process"
    /\ g_synth # nullptr
    /\ lastCall.a > lastCall.cap0
    /\ allocs = 2

\* C9 as stated: process reallocates only when numSamples exceeds the current
\* capacity, the capacity never shrinks between two init calls, and a process
\* call of at most the size given to init or any earlier request performs no
\* allocation or deallocation.
C9_CapacityNeverShrinksBetweenInits ==
    /\ (lastCall.op = "process" /\ allocs > 0) => lastCall.a > lastCall.cap0
    /\ lastCall.op # "init" => g_bufferSize >= lastCall.cap0
    /\ (lastCall.op = "process" /\ lastCall.a <= lastCall.b) => allocs = 0

\* C9 amended: the same, but the capacity never shrinks between two init calls
\* except by cleanup, which releases the buffer and records size 0.
C9_NoAllocationInSteadyState ==
    /\ (lastCall.op = "process" /\ allocs > 0) => lastCall.a > lastCall.cap0
    /\ lastCall.op \notin {"init", "cleanup"} => g_bufferSize >= lastCall.cap0
    /\ (lastCall.op = "process" /\ lastCall.a <= lastCall.b) => allocs = 0

\* a rendering process call within the declared size that allocated nothing
C9_Witness ==
    /\ lastCall.op = "process"
    /\ ret # nullptr
    /\ lastCall.a > 0 /\ lastCall.a <= lastCall.b
    /\ allocs = 0

C11_OffForOtherNoteIgnored ==
    [][(lastCall'.op = "noteOff" /\ g_synth # nullptr) =>
          IF lastCall'.a # synth.currentNote
          THEN synth' = synth
          ELSE /\ ~synth'.gateOpen
               /\ synth'.currentNote = synth.currentNote]_vars

\* the off event of the note that was slid away from has arrived: the gate is
\* still open on the note slid to
C11_Witness ==
    /\ lastCall.op = "noteOff"
    /\ synth.gateOpen /\ synth.sliding
    /\ lastCall.a = synth.previousNote
    /\ lastCall.a # synth.currentNote

\* C12: a noteOn (velocity > 0) while the gate is open is a slide: previousNote
\* becomes the old currentNote, currentNote the new note, sliding true, and both
\* envelopes stay in the stage they were in (neither is moved to Attack); a
\* noteOn while the gate is closed is a fresh trigger: sliding false, gate
\* open, both envelopes in Attack.
C12_SlideOrFreshTrigger ==
    [][(lastCall'.op = "noteOn" /\ lastCall'.b > 0 /\ g_synth # nullptr) =>
          IF synth.gateOpen
          THEN /\ synth'.previousNote = synth.currentNote
               /\ synth'.currentNote = lastCall'.a
               /\ synth'.sliding /\ synth'.gateOpen
               /\ synth'.ampEnv = synth.ampEnv
               /\ synth'.filterEnv = synth.filterEnv
          ELSE /\ synth'.currentNote = lastCall'.a
               /\ ~synth'.sliding /\ synth'.gateOpen
               /\ synth'.ampEnv = "Attack"
               /\ synth'.filterEnv = "Attack"]_vars

\* a slide to another note arrived while the envelopes were decaying, and they
\* still are
C12_Witness ==
    /\ lastCall.op = "noteOn" /\ lastCall.b > 0
    /\ synth.sliding /\ synth.gateOpen
    /\ synth.previousNote # NoNote /\ synth.previousNote # synth.currentNote
    /\ synth.ampEnv = "Decay" /\ synth.filterEnv = "Decay"

\* the voice after allNotesOff: gate closed, no current note, no accent, no slide
VoiceCleared(s) ==
    ~s.gateOpen /\ s.currentNote = NoNote /\ ~s.accented /\ ~s.sliding

\* C13: after allNotesOff, whatever note events came before, the gate is
\* closed, currentNote is empty, accented and sliding are false; after the
\* wrapper's allNotesOff the set of active notes is empty as well, and a ready
\* wrapper has made exactly the engine's allNotesOff call.
C13_AllNotesOffClearsVoice ==
    /\ (lastCall.op = "allNotesOff" /\ g_synth # nullptr) => VoiceCleared(synth)
    /\ lastCall.op = "JC303.allNotesOff" =>
          /\ activeNotes = {}
          /\ isReady => /\ g_synth # nullptr
                        /\ engineCalls = << <<"allNotesOff">> >>
                        /\ VoiceCleared(synth)

\* the wrapper's allNotesOff came while a note was held
C13_Witness ==
    /\ lastCall.op = "JC303.allNotesOff"
    /\ isReady
    /\ lastCall.changed

\* the message types processMessage applies to the engine
EventTypes == {"noteOn", "noteOff", "allNotesOff", "setParameter", "setModEnabled"}

\* C14: no event is applied to the engine while a block is being rendered.
\* A process call of the worklet applies every queued event first and renders
\* last: the engine fields its render loop read are the fields the call ends
\* with (the envelope stages apart, which the render itself advances), and all
\* 128 samples were stored after the last event.  A message handled outside
\* process renders nothing.
C14_EventsNeverDuringRender ==
    /\ lastCall.op = "JC303Processor.process" =>
          /\ written = 128
          /\ rendered # <<>>
          /\ [rendered[1] EXCEPT !.ampEnv = synth.ampEnv,
                                 !.filterEnv = synth.filterEnv] = synth
          /\ messageQueue = <<>>
    /\ lastCall.op \in EventTypes => (written = 0 /\ rendered = <<>>)

\* a process call found two or more queued events, among them a note-on and
\* a cutoff change, and rendered the block with them applied
C14_Witness ==
    /\ lastCall.op = "JC303Processor.process"
    /\ lastCall.b >= 2
    /\ rendered # <<>>
    /\ rendered[1].gateOpen
    /\ rendered[1].cutoff # CUTOFF_MIN

\* x lies between the two range ends, whichever is the larger
Between(x, a, b) == Min(a, b) <= x /\ x <= Max(a, b)

\* the mapping function named fn applied to a normalized input
MapFn(fn, in, outMin, outMax) ==
    IF fn = "linToLin" THEN linToLin(in, 0, 100, outMin, outMax)
    ELSE linToExp(in, 0, 100, outMin, outMax)

\* C15: linToLin and linToExp clamp their input: the result for an input
\* below inMin is the result for inMin, the result for an input above inMax is
\* the result for inMax, and the output is always within the output range.
C15_MappersClampInput ==
    mapped.fn # "none" =>
        /\ mapped.out = MapFn(mapped.fn, Clamp(mapped.in), mapped.outMin, mapped.outMax)
        /\ Between(mapped.out, mapped.outMin, mapped.outMax)

\* C16: for a normalized input in [0,1] linToLin and linToExp return a value
\* between the two ends of the output range, inclusive, also when the range is
\* inverted (outMin > outMax); input 0 gives outMin and input 1 gives outMax.
C16_UnitIntervalMapsIntoRange ==
    (mapped.fn # "none" /\ 0 <= mapped.in /\ mapped.in <= 100) =>
        /\ Between(mapped.out, mapped.outMin, mapped.outMax)
        /\ mapped.in = 0 => mapped.out = mapped.outMin
        /\ mapped.in = 100 => mapped.out = mapped.outMax

\* linToExp over the inverted feedback-filter range gave a value strictly
\* between 100 Hz and 350 Hz for an input strictly inside (0,1)
C16_Witness ==
    /\ mapped.fn = "linToExp"
    /\ mapped.outMin > mapped.outMax
    /\ 0 < mapped.in /\ mapped.in < 100
    /\ mapped.outMax < mapped.out /\ mapped.out < mapped.outMin

\* C17: engines are independent: an init made while an engine exists creates
\* a second engine and leaves the earlier one alive at its address, neither
\* destroyed nor replaced.
C17_SecondInitKeepsFirstEngine ==
    [][(lastCall'.op = "init" /\ g_synth # nullptr) =>
          /\ heap'[g_synth] = SynthBlock
          /\ g_synth' # g_synth]_vars

\* C18: a note-on with velocity 0 is a note-off: in every state
\* jc303_noteOn(n, 0) and jc303_noteOff(n) make the same engine call and leave
\* the same module state.
C18_NoteOnZeroIsNoteOff ==
    \A n \in Notes : jc303_noteOn(W, n, 0) = jc303_noteOff(W, n)

\* a note-on with velocity 0 has closed the gate of the sounding note
C18_Witness ==
    /\ lastCall.op = "noteOn" /\ lastCall.b = 0
    /\ lastCall.changed
    /\ ~synth.gateOpen
    /\ engineCalls = << <<"noteOn", lastCall.a, 0, 0>> >>

\* C19: a mod-only setter (normal decay, accent decay, feedback filter, soft
\* attack, slide time, square driver) called while extended mode is disabled
\* makes no engine call and changes no engine parameter, at the C interface
\* and through the wrapper.
C19_ModSettersInertWhenDisabled ==
    /\ (lastCall.op \in ModSetterNames /\ ~g_modEnabled) =>
          (engineCalls = <<>> /\ ~lastCall.changed)
    /\ (lastCall.op = "JC303.set" /\ lastCall.b \in ModSetterNames
          /\ ~parameters.modEnabled) => ~lastCall.changed

\* a mod-only setter was the last of the setter calls made on an initialized
\* engine whose extended mode is disabled
C19_Witness ==
    /\ lastCall.op \in ModSetterNames
    /\ g_synth # nullptr
    /\ ~g_modEnabled
    /\ nSetterCalls = MaxSetterCalls
    /\ synth.ampDecay = TB303_AMP_DECAY

\* C20: the queue of pending events is bounded: however many messages the
\* port receives, fewer than that number are ever pending at once.
C20_QueueBounded ==
    Len(messageQueue) < MaxMsgs

\* the module after each note call and each numeric setter call (pitch bend
\* included) that can be made in state w
NoteAndSetterCalls(w) ==
    {jc303_noteOn(w, n, v) : n \in Notes, v \in Velocities}
        \cup {jc303_noteOff(w, n) : n \in Notes}
        \cup {jc303_allNotesOff(w)}
        \cup {setParameter(w, p, v) : p \in SetterNames \cup {"pitchBend"},
                                      v \in NormInputs}

\* C21: while no engine exists, before the first init and after cleanup,
\* every note call and every setter returns having made no engine call and
\* having touched no memory (setModEnabled records the flag and nothing else),
\* process returns a null pointer without storing a sample, getBufferSize
\* reports 0, and no call faults.
C21_CallsWithoutEngineAreInert ==
    g_synth = nullptr =>
        /\ \A r \in NoteAndSetterCalls(W) : r = Enter(W)
        /\ \A enabled \in {0, 1} :
              jc303_setModEnabled(W, enabled) =
                  [Enter(W) EXCEPT !.g_modEnabled = (enabled # 0)]
        /\ \A numSamples \in -1..(MaxBuf + 1), a \in Addrs, elapsed \in BOOLEAN :
              jc303_process(W, numSamples, a, elapsed) =
                  [Enter(W) EXCEPT !.ret = nullptr]
        /\ jc303_getBufferSize(W).ret = 0
        /\ faults = {}
        /\ engineCalls = <<>>
        /\ lastCall.op \in SetterNames \cup {"setModEnabled"} => ~lastCall.changed

\* a mod setter was called with extended mode enabled after an init and a
\* cleanup: only the null check stood between the call and the freed engine
C21_Witness ==
    /\ g_synth = nullptr
    /\ maxReq > 0
    /\ g_modEnabled
    /\ lastCall.op \in ModSetterNames

\* C22: in every state reached by init, process and cleanup, an engine exists
\* exactly when an output buffer exists, both pointers refer to live objects,
\* the recorded size is the capacity of the buffer, and it is 0 when there is
\* no buffer.
C22_EngineBufferAndSizeAgree ==
    /\ (g_synth # nullptr) <=> (g_outputBuffer # nullptr)
    /\ g_synth # nullptr => heap[g_synth] = SynthBlock
    /\ g_outputBuffer # nullptr => heap[g_outputBuffer] = BufBlock(g_bufferSize)
    /\ g_outputBuffer = nullptr => g_bufferSize = 0

\* process has grown the buffer of an engine beyond the size given to init
C22_Witness ==
    /\ lastCall.op = "process"
    /\ allocs = 2
    /\ g_bufferSize = MaxBuf + 1
    /\ g_bufferSize > lastCall.cap0

\* C23: a failed allocation in init or in the buffer growth of process leaves
\* the module consistent: neither pointer refers to a freed object, the
\* recorded size is that of the buffer that exists, and no later call writes
\* to or frees released memory.
C23_ConsistentAfterFailedAllocation ==
    /\ g_synth # nullptr => heap[g_synth] = SynthBlock
    /\ g_outputBuffer # nullptr => heap[g_outputBuffer] = BufBlock(g_bufferSize)
    /\ g_outputBuffer = nullptr => g_bufferSize = 0
    /\ faults = {}

\* a step that may replace or free the output buffer: init, cleanup, or a
\* process call that asks for more than the recorded capacity
MayReleaseBuffer ==
    \/ lastCall'.op \in {"init", "cleanup"}
    \/ lastCall'.op = "process" /\ lastCall'.a > g_bufferSize

\* C24: a buffer pointer handed out by process or getOutputBuffer refers to a
\* live buffer, and stays the module's live buffer over every step other than
\* an init, a cleanup or a process call that exceeds the capacity; a process
\* call within the capacity returns the pointer already held.
C24_BufferPointerLiveUntilReplaced ==
    [][/\ (lastCall'.op \in {"process", "getOutputBuffer"} /\ ret' # nullptr) =>
            (ret' = g_outputBuffer' /\ heap'[ret'].k = "buf")
       /\ (~MayReleaseBuffer /\ g_outputBuffer # nullptr) =>
            /\ g_outputBuffer' = g_outputBuffer
            /\ heap'[g_outputBuffer] = heap[g_outputBuffer]
            /\ heap[g_outputBuffer].k = "buf"
       /\ (lastCall'.op = "process" /\ ~MayReleaseBuffer
             /\ g_synth # nullptr /\ g_outputBuffer # nullptr) =>
            ret' = g_outputBuffer]_vars

\* a process call for fewer samples than the capacity has returned the buffer
\* without allocating, after it stored the samples there
C24_Witness ==
    /\ lastCall.op = "process"
    /\ lastCall.a > 0 /\ lastCall.a < lastCall.cap0
    /\ ret = g_outputBuffer /\ ret # nullptr
    /\ allocs = 0 /\ written = lastCall.a

\* C25: on an initialized engine with extended mode disabled, the six mod
\* parameters hold their fixed defaults (normal decay 1230 ms, accent decay
\* 200 ms, feedback high-pass 150 Hz, attack 3 ms, slide 60 ms, square phase
\* shift 36.9), whatever init, setModEnabled, mod setter and main setter calls
\* came before.
C25_ModDefaultsWhileDisabled ==
    (g_synth # nullptr /\ ~g_modEnabled) =>
        /\ synth.ampDecay = TB303_AMP_DECAY
        /\ synth.accentDecay = TB303_ACCENT_DECAY
        /\ synth.feedbackHighpass = TB303_FEEDBACK_HIGHPASS
        /\ synth.normalAttack = TB303_NORMAL_ATTACK
        /\ synth.slideTime = TB303_SLIDE_TIME
        /\ synth.tanhShaperDrive = TB303_SHAPER_DRIVE

\* extended mode is disabled on an initialized engine after several setter
\* calls, the last of them a main setter that changed its parameter
C25_Witness ==
    /\ g_synth # nullptr /\ ~g_modEnabled
    /\ lastCall.op \in SetterNames \ ModSetterNames
    /\ lastCall.changed
    /\ nSetterCalls = MaxSetterCalls

\* C26: in the wrapper every numeric parameter of the cache is within [0,1]
\* after any setter and setParameters calls with arbitrary numbers, and every
\* normalized value the wrapper passes to a WASM setter other than pitch bend
\* is within [0,1].
C26_CacheAndPassedValuesInUnitRange ==
    /\ \A param \in SetterNames : InRange(parameters[param], 0, 100)
    /\ \A i \in 1..Len(wasmCalls) :
          wasmCalls[i][1] \in SetterNames => InRange(wasmCalls[i][2], 0, 100)

\* the engine after the setter of param has been called again with the cached
\* value: the mapping of the cached value under the mode in force
Remapped(param) == setParameter(W, param, parameters[param]).synth

\* C27: whenever the wrapper is ready its cache and the engine are in step:
\* each main engine parameter is the mapping of its cached value, the
\* engine's extended-mode flag is the cached modEnabled, and the six mod
\* parameters are the mappings of their cached values when modEnabled is true
\* and the fixed defaults when it is false.
C27_CacheAndEngineInStep ==
    isReady =>
        /\ g_modEnabled = parameters.modEnabled
        /\ \A param \in SetterNames \ ModSetterNames : Remapped(param) = synth
        /\ parameters.modEnabled =>
              \A param \in ModSetterNames : Remapped(param) = synth
        /\ ~parameters.modEnabled =>
              /\ synth.ampDecay = TB303_AMP_DECAY
              /\ synth.accentDecay = TB303_ACCENT_DECAY
              /\ synth.feedbackHighpass = TB303_FEEDBACK_HIGHPASS
              /\ synth.normalAttack = TB303_NORMAL_ATTACK
              /\ synth.slideTime = TB303_SLIDE_TIME
              /\ synth.tanhShaperDrive = TB303_SHAPER_DRIVE

\* C28: while the wrapper is not ready, noteOn, noteOff, allNotesOff and the
\* audio callback make no call into the WASM module, the set of active notes
\* is empty, and no note event is kept for later: the calls init makes when it
\* completes contain no note call.
C28_NotReadyMakesNoCall ==
    /\ ~isReady => activeNotes = {}
    /\ (~isReady /\ lastCall.op \in {"JC303.noteOn", "JC303.noteOff",
                                      "JC303.allNotesOff", "JC303.onaudioprocess"})
          => (wasmCalls = <<>> /\ ~lastCall.changed /\ written = 0)
    /\ lastCall.op = "JC303.init" =>
          \A i \in 1..Len(wasmCalls) :
              wasmCalls[i][1] \notin {"noteOn", "noteOff", "allNotesOff"}

\* a note-on arrives after destroy, on a wrapper that had been initialized
\* and whose audio callback is still installed
C28_Witness ==
    /\ ~isReady /\ onaudioprocess
    /\ lastCall.op = "JC303.noteOn" /\ lastCall.b > 0
    /\ wasmCalls = <<>>
    /\ activeNotes = {}

\* the ids of the messages that are pending
Pending == {messageQueue[i].id : i \in 1..Len(messageQueue)}

\* the ids of the messages that have been applied to the engine
Applied == {applied[i] : i \in 1..Len(applied)}

\* initWasm has finished without making the module ready
InitFailed == initState = "done" /\ ~wasmReady

\* C29: every message received before the module is ready is kept, and is
\* applied to the engine exactly once when initialization succeeds and process
\* keeps being called; the pending queue is empty after every process call in
\* the ready state; when initialization fails no message is ever applied.
C29_QueuedAppliedExactlyOnce ==
    /\ [](\A i, j \in 1..Len(applied) : applied[i] = applied[j] => i = j)
    /\ [](\A i \in 1..Len(received) :
            (received[i] \in Pending) # (received[i] \in Applied))
    /\ [](lastCall.op = "JC303Processor.process" => messageQueue = <<>>)
    /\ [](InitFailed => applied = <<>>)
    /\ \A id \in 1..MaxMsgs : (id \in Pending) ~> (id \in Applied \/ InitFailed)

\* every message the port can deliver arrived before the module was ready,
\* and one process call has applied them all
C29_Witness ==
    /\ wasmReady
    /\ lastCall.op = "JC303Processor.process"
    /\ lastCall.b = MaxMsgs
    /\ applied = received
    /\ messageQueue = <<>>

\* C30: the worklet reports the outcome of its initialization exactly once,
\* with one 'ready' or one 'error' message and never both; wasmReady is true
\* exactly when 'ready' was posted and never returns to false; and while
\* wasmReady is false no note, parameter or process call reaches the engine.
C30_OutcomeReportedOnce ==
    /\ [](Len(posted) <= 1)
    /\ []((initState = "done") <=> (Len(posted) = 1))
    /\ [](wasmReady <=> (posted = <<"ready">>))
    /\ [](~wasmReady => (lastCall.op = "none" /\ applied = <<>> /\ written = 0))
    /\ [][wasmReady => wasmReady']_vars
    /\ <>(Len(posted) = 1)

\* the module is ready, 'ready' is the one message posted, and a block has
\* been rendered since
C30_Witness ==
    /\ wasmReady /\ posted = <<"ready">>
    /\ lastCall.op = "JC303Processor.process"
    /\ written = 128

====
